---- MODULE Spec2Model ----
(***************************************************************************)
(* Model of the novel publishing pipeline: the Chapter Cleaner             *)
(* (scripts/clean-chapters.js), the Chapter/Asset Synchronizer             *)
(* (scripts/sync-chapters.js) and the WordPress Publisher                  *)
(* (scripts/publish-to-wp.js).                                             *)
(*                                                                         *)
(* Text is modelled character by character: a string is a sequence of      *)
(* one-character strings.  A character outside ASCII is written by its     *)
(* code point ("U+FF1A" is the fullwidth colon).                           *)
(***************************************************************************)
EXTENDS Integers, Sequences, FiniteSets, TLC

VARIABLES
  (* Cleaner *)
  fileContent,    \* content of the chapter file on disk
  cleanInput,     \* content the file had before the first Cleaner run
  cleanRuns,      \* number of Cleaner runs so far
  wasModified,    \* return value of the last cleanChapter call
  (* getChapterOrder *)
  nameParts,      \* the pieces the filename was put together from
  filename,       \* the filename handed to getChapterOrder
  order,          \* its result, -1 before the call
  (* createExcerpt *)
  chapterBody,    \* the chapter body handed to createExcerpt
  maxLength,      \* its maxLength parameter
  excerpt,        \* its result
  excerptDone,    \* createExcerpt has returned
  (* syncAssets *)
  srcFiles,       \* paths of the files under projects/<novel>/_assets
  srcDirs,        \* paths of the directories there, the root <<>> included
  destFiles,      \* paths of the files under site/public/assets/<novel>
  destDirs,       \* paths of the directories there
  assetCount,     \* what copyDir returned for the root, -1 before the call
  (* syncNovel *)
  srcChapters,    \* projects/<novel>/chapters: file name -> document
  destChapters,   \* site/src/content/novels/<novel>: file name -> document
  syncRuns,       \* number of syncNovel runs so far
  (* Publisher *)
  wpUser,         \* process.env.WP_USER is set (truthy)
  wpAppPassword,  \* process.env.WP_APP_PASSWORD is set (truthy)
  argv,           \* process.argv.slice(2)
  files,          \* the .md arguments, in order
  pc,             \* where main is: "start", "loop", the request it awaits, "done", "exited"
  idx,            \* position in files of the file being processed
  exitCode,       \* the exit code of the process
  inflight,       \* requests sent to the WordPress API and not yet answered
  featuredMediaId, \* main's featuredMediaId: "none" is null
  remotePosts,    \* WordPress: slug -> status of the post with that slug ("none": no post)
  extraPosts,     \* WordPress: slug -> posts created while the slug was taken
  outcome,        \* per file: "pending", "skipped", "success", "failed"
  fault,          \* per file: the environment made a step of it throw
  calls,          \* the requests issued so far for the file being processed, in order
  reads,          \* positions of the files main has tried to read
  runs            \* number of completed Publisher runs

cleanVars == <<fileContent, cleanInput, cleanRuns, wasModified>>
orderVars == <<nameParts, filename, order>>
excerptVars == <<chapterBody, maxLength, excerpt, excerptDone>>

assetVars == <<srcFiles, srcDirs, destFiles, destDirs, assetCount>>

syncVars == <<srcChapters, destChapters, syncRuns>>

pubVars == <<wpUser, wpAppPassword, argv, files, pc, idx, exitCode, inflight,
             featuredMediaId, remotePosts, extraPosts, outcome, fault, calls, reads, runs>>

vars == <<cleanVars, orderVars, excerptVars, assetVars, syncVars, pubVars>>

(***************************************************************************)
(* Strings                                                                 *)
(***************************************************************************)
NL == "\n"

\* JavaScript's \s, restricted to the characters the model's inputs use.
Whitespace == {" ", NL, "\t", "\r"}

\* JavaScript's LineTerminator: what '.' refuses and what '^'/'$' stop at
\* under the m flag.
LineTerminators == {NL, "\r"}

Digits == <<"0", "1", "2", "3", "4", "5", "6", "7", "8", "9">>

UpperCase == <<"A", "B", "C", "D", "E", "F", "G", "H", "I", "J", "K", "L", "M",
               "N", "O", "P", "Q", "R", "S", "T", "U", "V", "W", "X", "Y", "Z">>

LowerCase == <<"a", "b", "c", "d", "e", "f", "g", "h", "i", "j", "k", "l", "m",
               "n", "o", "p", "q", "r", "s", "t", "u", "v", "w", "x", "y", "z">>

IsUpper(c) == \E i \in 1..26 : UpperCase[i] = c

IsDigit(c) == \E i \in 1..10 : Digits[i] = c

\* String.prototype.toLowerCase on one character
ToLowerChar(c) ==
  IF IsUpper(c) THEN LowerCase[CHOOSE i \in 1..26 : UpperCase[i] = c] ELSE c

ToLowerCase(s) == [i \in 1..Len(s) |-> ToLowerChar(s[i])]

\* the literal lit occurs in s at position i
MatchAt(s, i, lit) ==
  /\ i >= 1
  /\ i + Len(lit) - 1 <= Len(s)
  /\ \A k \in 1..Len(lit) : s[i + k - 1] = lit[k]

\* the same, ignoring case (the i flag)
MatchAtIgnoreCase(s, i, lit) ==
  /\ i >= 1
  /\ i + Len(lit) - 1 <= Len(s)
  /\ \A k \in 1..Len(lit) : ToLowerChar(s[i + k - 1]) = ToLowerChar(lit[k])

\* s[from..to], empty when to < from
Slice(s, from, to) == IF to < from THEN <<>> ELSE SubSeq(s, from, to)

\* first position >= i whose character is not in set (Len(s)+1 when none)
RECURSIVE SkipWhile(_, _, _)
SkipWhile(s, i, set) ==
  IF i <= Len(s) /\ s[i] \in set THEN SkipWhile(s, i + 1, set) ELSE i

\* first position >= i whose character is in set (Len(s)+1 when none)
RECURSIVE SkipUntil(_, _, _)
SkipUntil(s, i, set) ==
  IF i <= Len(s) /\ s[i] \notin set THEN SkipUntil(s, i + 1, set) ELSE i

RECURSIVE Concat(_)
Concat(chunks) ==
  IF chunks = <<>> THEN <<>> ELSE Head(chunks) \o Concat(Tail(chunks))

(***************************************************************************)
(* Chapter Cleaner: scripts/clean-chapters.js                              *)
(***************************************************************************)
MetadataOpen  == <<"<", "m", "e", "t", "a", "d", "a", "t", "a", ">">>
MetadataClose == <<"<", "/", "m", "e", "t", "a", "d", "a", "t", "a", ">">>

\* "- **" label "**" fullwidth-colon, for the five labels of lines 24-28
LabelPrefix(label) == <<"-", " ", "*", "*">> \o label \o <<"*", "*", "U+FF1A">>

LabelWordCount == <<"U+5B57", "U+6578", "U+76EE", "U+6A19">>
LabelPOV       == <<"P", "O", "V">>
LabelTimeline  == <<"U+6642", "U+9593", "U+8EF8">>
LabelTheme     == <<"U+6838", "U+5FC3", "U+4E3B", "U+984C">>
LabelScene     == <<"U+5834", "U+666F">>

\* position of the first closing tag at or after i (0 when there is none):
\* the lazy [\s\S]*? stops at the first one
RECURSIVE FirstClose(_, _)
FirstClose(s, i) ==
  IF i > Len(s) THEN 0
  ELSE IF MatchAtIgnoreCase(s, i, MetadataClose) THEN i
  ELSE FirstClose(s, i + 1)

\* content.replace(/<metadata>[\s\S]*?<\/metadata>\s*/gi, '') from position i
RECURSIVE RemoveMetadataFrom(_, _)
RemoveMetadataFrom(s, i) ==
  IF i > Len(s) THEN <<>>
  ELSE IF /\ MatchAtIgnoreCase(s, i, MetadataOpen)
          /\ FirstClose(s, i + Len(MetadataOpen)) # 0
       THEN RemoveMetadataFrom(s,
              SkipWhile(s, FirstClose(s, i + Len(MetadataOpen)) + Len(MetadataClose),
                        Whitespace))
       ELSE <<s[i]>> \o RemoveMetadataFrom(s, i + 1)

RemoveMetadata(s) == RemoveMetadataFrom(s, 1)

\* '^' under the m flag
AtLineStart(s, i) == i = 1 \/ s[i - 1] \in LineTerminators

\* content.replace(/^- \*\*<label>\*\*<colon>.*$/gm, '') from position i
RECURSIVE RemoveLabelLineFrom(_, _, _)
RemoveLabelLineFrom(s, label, i) ==
  IF i > Len(s) THEN <<>>
  ELSE IF AtLineStart(s, i) /\ MatchAt(s, i, LabelPrefix(label))
       THEN RemoveLabelLineFrom(s, label, SkipUntil(s, i, LineTerminators))
       ELSE <<s[i]>> \o RemoveLabelLineFrom(s, label, i + 1)

RemoveLabelLine(s, label) == RemoveLabelLineFrom(s, label, 1)

\* replace every maximal run of at least atLeast newlines by `by` newlines
RECURSIVE CollapseRunsFrom(_, _, _, _)
CollapseRunsFrom(s, i, atLeast, by) ==
  IF i > Len(s) THEN <<>>
  ELSE IF s[i] = NL
       THEN LET j == SkipWhile(s, i, {NL})
            IN  (IF j - i >= atLeast THEN [k \in 1..by |-> NL] ELSE Slice(s, i, j - 1))
                \o CollapseRunsFrom(s, j, atLeast, by)
       ELSE <<s[i]>> \o CollapseRunsFrom(s, i + 1, atLeast, by)

\* the threshold off by one: /\n{5,}/g
CollapseNewlinesMutant(s) == CollapseRunsFrom(s, 1, 5, 3)

\* content.replace(/\n{4,}/g, '\n\n\n')
CollapseNewlines(s) == CollapseRunsFrom(s, 1, 4, 3)

FrontmatterDelimiter == <<"-", "-", "-", NL>>

\* content.replace(/(---\n)\n+/g, '$1\n') from position i
RECURSIVE TrimAfterDelimiterFrom(_, _)
TrimAfterDelimiterFrom(s, i) ==
  IF i > Len(s) THEN <<>>
  ELSE IF MatchAt(s, i, FrontmatterDelimiter \o <<NL>>)
       THEN FrontmatterDelimiter \o <<NL>>
            \o TrimAfterDelimiterFrom(s, SkipWhile(s, i + 4, {NL}))
       ELSE <<s[i]>> \o TrimAfterDelimiterFrom(s, i + 1)

TrimAfterDelimiter(s) == TrimAfterDelimiterFrom(s, 1)

\* the transformation of cleanChapter, lines 19-34
CleanContent(s) ==
  LET c1 == RemoveMetadata(s)
      c2 == RemoveLabelLine(c1, LabelWordCount)
      c3 == RemoveLabelLine(c2, LabelPOV)
      c4 == RemoveLabelLine(c3, LabelTimeline)
      c5 == RemoveLabelLine(c4, LabelTheme)
      c6 == RemoveLabelLine(c5, LabelScene)
      c7 == CollapseNewlines(c6)
  IN  TrimAfterDelimiter(c7)

\* Inputs: files made of at most MaxChunks of these pieces.
MaxChunks == 3
MaxCleanRuns == 2

CleanChunks ==
  { <<"<", "m", "e", "t", "a">>,
    <<"d", "a", "t", "a", ">">> \o MetadataClose,
    <<"<", "M", "e", "t", "a", "d", "a", "t", "a", ">", "m">> \o MetadataClose,
    MetadataClose,
    <<NL>>,
    <<NL, NL, NL>>,
    <<NL, NL, NL, NL>>,
    <<"a">>,
    <<"-", "-", "-">>,
    LabelPrefix(LabelPOV) \o <<"x">> }

RECURSIVE ChunkSeqs(_, _)
ChunkSeqs(chunks, n) ==
  IF n = 0 THEN {<<>>}
  ELSE LET shorter == ChunkSeqs(chunks, n - 1)
       IN  shorter \cup {<<c>> \o t : c \in chunks, t \in {u \in shorter : Len(u) = n - 1}}

CleanInputs == {Concat(cs) : cs \in ChunkSeqs(CleanChunks, MaxChunks)}

(***************************************************************************)
(* getChapterOrder: scripts/sync-chapters.js                               *)
(***************************************************************************)
DigitSet == {Digits[i] : i \in 1..10}

DigitValue(c) == (CHOOSE i \in 1..10 : Digits[i] = c) - 1

\* parseInt(digits, 10) of a non-empty run of decimal digits
RECURSIVE ParseInt(_)
ParseInt(ds) ==
  IF ds = <<>> THEN 0
  ELSE ParseInt(SubSeq(ds, 1, Len(ds) - 1)) * 10 + DigitValue(ds[Len(ds)])

\* String.prototype.charCodeAt(0) of an upper-case letter ("A" is 65)
CharCodeAt(c) == 64 + (CHOOSE i \in 1..26 : UpperCase[i] = c)

ChapLiteral == <<"C", "h", "a", "p", "_">>

\* leftmost position at which /Chap_(\d+)/ matches at or after i, 0 when none:
\* the pattern is not anchored
RECURSIVE ChapMatchFrom(_, _)
ChapMatchFrom(s, i) ==
  IF i > Len(s) THEN 0
  ELSE IF /\ MatchAt(s, i, ChapLiteral)
          /\ i + Len(ChapLiteral) <= Len(s)
          /\ IsDigit(s[i + Len(ChapLiteral)])
       THEN i
       ELSE ChapMatchFrom(s, i + 1)

\* filename.match(/Chap_(\d+)(?:-([A-Z]))?/), with charCodeAt(0) - base
ChapterOrderWith(name, base) ==
  LET m == ChapMatchFrom(name, 1)
  IN  IF m = 0 THEN 999
      ELSE LET from == m + Len(ChapLiteral)
               to == SkipWhile(name, from, DigitSet)
               mainNum == ParseInt(Slice(name, from, to - 1))
               hasSub == /\ to + 1 <= Len(name)
                         /\ name[to] = "-"
                         /\ IsUpper(name[to + 1])
               subNum == IF hasSub THEN CharCodeAt(name[to + 1]) - base ELSE 0
           IN  mainNum * 10 + subNum

\* the sub-index counted from A=0
getChapterOrderMutant(name) == ChapterOrderWith(name, 65)

getChapterOrder(name) == ChapterOrderWith(name, 64)

\* Number.prototype.toString of a natural number
RECURSIVE ToDigits(_)
ToDigits(n) ==
  IF n < 10 THEN <<Digits[n + 1]>> ELSE ToDigits(n \div 10) \o <<Digits[(n % 10) + 1]>>

\* Inputs: filenames put together from a head, the word, a chapter number
\* (possibly absent, possibly zero-padded), a sub-index part and a tail.
MaxChapter == 12

NameHeads == {<<>>, <<"x">>}
NameWords == {ChapLiteral, <<"c", "h", "a", "p", "_">>, <<"C", "h", "a", "p">>}
SubLetters == {"A", "B", "I", "J", "Z"}
NameSubs == {<<>>, <<"-">>, <<"-", "b">>} \cup {<<"-", l>> : l \in SubLetters}
TitleTail == <<"_", "A", "B", "_", "T", ".", "m", "d">>
NameTails == {TitleTail, <<".", "m", "d">>, <<"_", "A", "B", "_">> \o ChapLiteral \o <<"3", ".", "m", "d">>}

NameParts ==
  [head : NameHeads, word : NameWords, hasNumber : BOOLEAN, n : 0..MaxChapter,
   padded : BOOLEAN, sub : NameSubs, tail : NameTails]

NumberText(p) ==
  IF ~p.hasNumber THEN <<>>
  ELSE (IF p.padded THEN <<"0">> ELSE <<>>) \o ToDigits(p.n)

BuildName(p) == p.head \o p.word \o NumberText(p) \o p.sub \o p.tail

OrderInit ==
  /\ nameParts \in {p \in NameParts : p.hasNumber \/ (p.n = 0 /\ ~p.padded)}
  /\ filename = BuildName(nameParts)
  /\ order = -1

OrderIdle == nameParts = <<>> /\ filename = <<>> /\ order = -1

GetChapterOrder ==
  /\ order = -1
  /\ order' = getChapterOrder(filename)
  /\ UNCHANGED <<nameParts, filename>>
  /\ UNCHANGED <<cleanVars, excerptVars, assetVars, syncVars, pubVars>>

(***************************************************************************)
(* createExcerpt: scripts/publish-to-wp.js                                 *)
(***************************************************************************)
\* end of the match of /!\[.*?\]\(.*?\)/ that starts at i (0 when none):
\* "![", the nearest "](" on the line, the nearest ")" on the line
RECURSIVE FindOnLine(_, _, _)
FindOnLine(s, i, lit) ==
  IF i > Len(s) \/ (~MatchAt(s, i, lit) /\ s[i] \in LineTerminators) THEN 0
  ELSE IF MatchAt(s, i, lit) THEN i
  ELSE FindOnLine(s, i + 1, lit)

ImageEnd(s, i) ==
  IF ~MatchAt(s, i, <<"!", "[">>) THEN 0
  ELSE LET mid == FindOnLine(s, i + 2, <<"]", "(">>)
       IN  IF mid = 0 THEN 0 ELSE FindOnLine(s, mid + 2, <<")">>)

\* .replace(/!\[.*?\]\(.*?\)/g, '')
RECURSIVE RemoveImagesFrom(_, _)
RemoveImagesFrom(s, i) ==
  IF i > Len(s) THEN <<>>
  ELSE IF ImageEnd(s, i) # 0 THEN RemoveImagesFrom(s, ImageEnd(s, i) + 1)
  ELSE <<s[i]>> \o RemoveImagesFrom(s, i + 1)

\* .replace(/[#*_`]/g, ''); the backtick is written "U+0060"
RemoveMarkers(s) == SelectSeq(s, LAMBDA c : c \notin {"#", "*", "_", "U+0060"})

\* .replace(/\n+/g, ' ')
RECURSIVE NewlinesToSpaceFrom(_, _)
NewlinesToSpaceFrom(s, i) ==
  IF i > Len(s) THEN <<>>
  ELSE IF s[i] = NL THEN <<" ">> \o NewlinesToSpaceFrom(s, SkipWhile(s, i, {NL}))
  ELSE <<s[i]>> \o NewlinesToSpaceFrom(s, i + 1)

\* last position <= i whose character is not in set (0 when none)
RECURSIVE SkipBackWhile(_, _, _)
SkipBackWhile(s, i, set) ==
  IF i >= 1 /\ s[i] \in set THEN SkipBackWhile(s, i - 1, set) ELSE i

\* .trim()
Trim(s) == Slice(s, SkipWhile(s, 1, Whitespace), SkipBackWhile(s, Len(s), Whitespace))

\* the plain text of lines 79-83
PlainText(body) == Trim(NewlinesToSpaceFrom(RemoveMarkers(RemoveImagesFrom(body, 1)), 1))

\* t.replace(/\s+\S*$/, ''): drop the last whitespace run and what follows it
StripLastWord(t) ==
  LET lastWs == SkipBackWhile(t, Len(t), {c \in {t[k] : k \in 1..Len(t)} : c \notin Whitespace})
  IN  IF lastWs = 0 THEN t
      ELSE Slice(t, 1, SkipBackWhile(t, lastWs, Whitespace))

\* the truncation without the word-boundary step
TruncateMutant(plainText, max) == SubSeq(plainText, 1, max) \o <<".", ".", ".">>

\* plainText.substring(0, maxLength).replace(/\s+\S*$/, '') + '...'
Truncate(plainText, max) == StripLastWord(SubSeq(plainText, 1, max)) \o <<".", ".", ".">>

createExcerpt(body, max) ==
  IF Len(PlainText(body)) <= max THEN PlainText(body) ELSE Truncate(PlainText(body), max)

\* maxLength when the caller gives none (main gives none)
DefaultMaxLength == 500

\* Inputs: bodies of at most MaxBodyChunks of these pieces, and a maxLength
\* of at most MaxExcerptLength.
MaxBodyChunks == 4
MaxExcerptLength == 4

BodyChunks ==
  { <<"a">>, <<"b", "c">>, <<" ">>, <<NL>>, <<"#">>,
    <<"!", "[", "x", "]", "(", "y", ")">>, <<"!", "[">>, <<" ", "d", "e", "f">> }

ExcerptInit ==
  /\ chapterBody \in {Concat(cs) : cs \in ChunkSeqs(BodyChunks, MaxBodyChunks)}
  /\ maxLength \in 1..MaxExcerptLength
  /\ excerpt = <<>>
  /\ excerptDone = FALSE

ExcerptIdle == chapterBody = <<>> /\ maxLength = 0 /\ excerpt = <<>> /\ excerptDone = FALSE

CreateExcerpt ==
  /\ ~excerptDone
  /\ excerpt' = createExcerpt(chapterBody, maxLength)
  /\ excerptDone' = TRUE
  /\ UNCHANGED <<chapterBody, maxLength>>
  /\ UNCHANGED <<cleanVars, orderVars, assetVars, syncVars, pubVars>>

(***************************************************************************)
(* syncAssets: scripts/sync-chapters.js                                    *)
(***************************************************************************)
\* String.prototype.endsWith
EndsWith(s, suffix) == MatchAt(s, Len(s) - Len(suffix) + 1, suffix)

imageExts ==
  { <<".", "j", "p", "g">>, <<".", "j", "p", "e", "g">>, <<".", "p", "n", "g">>,
    <<".", "g", "i", "f">>, <<".", "w", "e", "b", "p">>, <<".", "s", "v", "g">> }

\* the extension compared without lower-casing the name
IsImageNameMutant(name) == \E ext \in imageExts : EndsWith(name, ext)

\* imageExts.some(ext => entry.name.toLowerCase().endsWith(ext))
IsImageName(name) == \E ext \in imageExts : EndsWith(ToLowerCase(name), ext)

\* readdir(src): the entries directly under dir
ChildrenOf(paths, dir) ==
  {q \in paths : Len(q) = Len(dir) + 1 /\ SubSeq(q, 1, Len(dir)) = dir}

\* the entries copyDir copies from dir and from the directories under it
RECURSIVE CopiedFrom(_, _, _)
CopiedFrom(entries, dirs, dir) ==
  {f \in ChildrenOf(entries, dir) : IsImageName(f[Len(f)])}
    \cup UNION {CopiedFrom(entries, dirs, d) : d \in ChildrenOf(dirs, dir)}

\* the count copyDir returns for dir: one per copyFile, plus what the calls
\* for the directories under it return
RECURSIVE CopyDirCount(_, _, _)
RECURSIVE SumCopyDirCount(_, _, _)
SumCopyDirCount(entries, dirs, subdirs) ==
  IF subdirs = {} THEN 0
  ELSE LET d == CHOOSE d \in subdirs : TRUE
       IN  CopyDirCount(entries, dirs, d) + SumCopyDirCount(entries, dirs, subdirs \ {d})

CopyDirCount(entries, dirs, dir) ==
  Cardinality({f \in ChildrenOf(entries, dir) : IsImageName(f[Len(f)])})
    + SumCopyDirCount(entries, dirs, ChildrenOf(dirs, dir))

\* the directories copyDir visits from dir, each one made at the destination
RECURSIVE VisitedFrom(_, _)
VisitedFrom(dirs, dir) ==
  {dir} \cup UNION {VisitedFrom(dirs, d) : d \in ChildrenOf(dirs, dir)}

\* Inputs: at most MaxFilesPerDir of these names in each directory of one of
\* these directory trees.
MaxFilesPerDir == 2

AssetNames ==
  { <<"a", ".", "j", "p", "g">>, <<"B", ".", "P", "N", "G">>, <<"c", ".", "t", "x", "t">>,
    <<"d", ".", "s", "v", "g", "z">>, <<"e", ".", "J", "p", "e", "g">> }

DirChapters == <<"c", "h">>
DirDotted == <<"x", ".", "p", "n", "g">>

DirTrees ==
  { {<<>>},
    {<<>>, <<DirChapters>>},
    {<<>>, <<DirChapters>>, <<DirChapters, DirDotted>>},
    {<<>>, <<DirChapters>>, <<DirDotted>>} }

FileSetsIn(dir) ==
  {{dir \o <<n>> : n \in names} :
     names \in {ns \in SUBSET AssetNames : Cardinality(ns) <= MaxFilesPerDir}}

RECURSIVE TreesOver(_)
TreesOver(dirs) ==
  IF dirs = {} THEN {{}}
  ELSE LET d == CHOOSE d \in dirs : TRUE
       IN  {here \cup rest : here \in FileSetsIn(d), rest \in TreesOver(dirs \ {d})}

AssetsInit ==
  /\ srcDirs \in DirTrees
  /\ srcFiles \in TreesOver(srcDirs)
  /\ destFiles = {}
  /\ destDirs = {}
  /\ assetCount = -1

AssetsIdle ==
  srcFiles = {} /\ srcDirs = {} /\ destFiles = {} /\ destDirs = {} /\ assetCount = -1

\* syncAssets(novelName) when the _assets directory exists
SyncAssets ==
  /\ assetCount = -1
  /\ destDirs' = VisitedFrom(srcDirs, <<>>)
  /\ destFiles' = CopiedFrom(srcFiles, srcDirs, <<>>)
  /\ assetCount' = CopyDirCount(srcFiles, srcDirs, <<>>)
  /\ UNCHANGED <<srcFiles, srcDirs>>
  /\ UNCHANGED <<cleanVars, orderVars, excerptVars, syncVars, pubVars>>

(***************************************************************************)
(* syncNovel: scripts/sync-chapters.js                                     *)
(*                                                                         *)
(* A document is its front matter block, already split into lines (absent  *)
(* when the file does not start with one), and its body.                   *)
(***************************************************************************)
Quotes == {"\"", "'"}

\* position of the first occurrence of c in s, 0 when there is none
IndexOf(s, c) == IF \E i \in 1..Len(s) : s[i] = c
                 THEN CHOOSE i \in 1..Len(s) : s[i] = c /\ \A j \in 1..(i - 1) : s[j] # c
                 ELSE 0

\* .replace(/^["']|["']$/g, '')
StripQuotes(v) ==
  LET a == IF Len(v) >= 1 /\ v[1] \in Quotes THEN Tail(v) ELSE v
  IN  IF Len(a) >= 1 /\ a[Len(a)] \in Quotes THEN SubSeq(a, 1, Len(a) - 1) ELSE a

\* a line of the block counts when it has a colon that is not its first character
IsFieldLine(line) == IndexOf(line, ":") > 1

LineKey(line) == Trim(Slice(line, 1, IndexOf(line, ":") - 1))

LineValue(line) == StripQuotes(Trim(Slice(line, IndexOf(line, ":") + 1, Len(line))))

\* parseYamlFrontmatter: the object of the block's fields, a later line
\* overwriting an earlier one with the same key; the empty object for no block
parseYamlFrontmatter(doc) ==
  LET lines == IF doc.hasFm THEN doc.lines ELSE <<>>
      fields == {i \in 1..Len(lines) : IsFieldLine(lines[i])}
      keys == {LineKey(lines[i]) : i \in fields}
  IN  [k \in keys |->
         LineValue(lines[CHOOSE i \in fields :
                           /\ LineKey(lines[i]) = k
                           /\ \A j \in fields : LineKey(lines[j]) = k => j <= i])]

\* existing.<key>, with undefined read as the empty string (both are falsy)
Field(obj, key) == IF key \in DOMAIN obj THEN obj[key] ELSE <<>>

KeyTitle == <<"t", "i", "t", "l", "e">>
KeyOrder == <<"o", "r", "d", "e", "r">>
KeyCover == <<"c", "o", "v", "e", "r">>
KeyCoverUrl == <<"c", "o", "v", "e", "r", "_", "u", "r", "l">>
KeyCoverMediaId == <<"c", "o", "v", "e", "r", "_", "m", "e", "d", "i", "a", "_", "i", "d">>

DotMd == <<".", "m", "d">>

\* the title captured by /Chap_\d+(?:-[A-Z])?_[^_]+_(.+)\.md$/ when the match
\* starts at i (<<>> when it does not match there)
TitleAt(name, i) ==
  IF ~(MatchAt(name, i, ChapLiteral) /\ i + 5 <= Len(name) /\ IsDigit(name[i + 5]))
  THEN <<>>
  ELSE LET j == SkipWhile(name, i + 5, DigitSet)
           k == IF j + 1 <= Len(name) /\ name[j] = "-" /\ IsUpper(name[j + 1])
                THEN j + 2 ELSE j
           u == SkipUntil(name, k + 1, {"_"})
       IN  IF /\ k <= Len(name) /\ name[k] = "_"
              /\ u > k + 1 /\ u <= Len(name)
              /\ EndsWith(name, DotMd) /\ Len(name) - 3 >= u + 1
           THEN Slice(name, u + 1, Len(name) - 3)
           ELSE <<>>

RECURSIVE TitleMatchFrom(_, _)
TitleMatchFrom(name, i) ==
  IF i > Len(name) THEN <<>>
  ELSE IF TitleAt(name, i) # <<>> THEN TitleAt(name, i)
  ELSE TitleMatchFrom(name, i + 1)

\* filename.replace('.md', ''): the first occurrence only
RECURSIVE RemoveFirstDotMd(_, _)
RemoveFirstDotMd(name, i) ==
  IF i > Len(name) THEN name
  ELSE IF MatchAt(name, i, DotMd)
       THEN Slice(name, 1, i - 1) \o Slice(name, i + 3, Len(name))
       ELSE RemoveFirstDotMd(name, i + 1)

defaultTitle(name) ==
  IF TitleMatchFrom(name, 1) # <<>>
  THEN [i \in 1..Len(TitleMatchFrom(name, 1)) |->
          IF TitleMatchFrom(name, 1)[i] = "_" THEN " " ELSE TitleMatchFrom(name, 1)[i]]
  ELSE RemoveFirstDotMd(name, 1)

QuotedLine(key, value) == key \o <<":", " ", "\"">> \o value \o <<"\"">>

\* generateFrontmatter(filename, existingFrontmatter): the lines of the new block
generateFrontmatter(name, doc) ==
  LET existing == parseYamlFrontmatter(doc)
      title == IF Field(existing, KeyTitle) # <<>> THEN Field(existing, KeyTitle)
               ELSE defaultTitle(name)
      kept(key) == IF Field(existing, key) # <<>>
                   THEN <<QuotedLine(key, Field(existing, key))>> ELSE <<>>
  IN  <<QuotedLine(KeyTitle, title),
        KeyOrder \o <<":", " ">> \o ToDigits(getChapterOrder(name))>>
      \o kept(KeyCover) \o kept(KeyCoverUrl) \o kept(KeyCoverMediaId)

\* what syncNovel writes to the destination for one source file: the block is
\* generated from the source file's own front matter
SyncedDocument(name, doc) ==
  [hasFm |-> TRUE,
   lines |-> generateFrontmatter(name, doc),
   body  |-> IF doc.hasFm THEN Trim(doc.body) ELSE doc.body]

\* Inputs
MaxSrcLines == 2
MaxSyncRuns == 2

ChapterOne == <<"C", "h", "a", "p", "_", "1", "_", "A", "B", "_", "T", ".", "m", "d">>
ChapterNotes == <<"n", "o", "t", "e", "s", ".", "m", "d">>
ScratchFile == <<"x", ".", "t", "x", "t">>

CoverLine == <<"c", "o", "v", "e", "r", ":", " ", "\"", "x", ".", "j", "p", "g", "\"">>
CoverUrlLine == <<"c", "o", "v", "e", "r", "_", "u", "r", "l", ":", " ", "u">>
CoverMediaIdLine == <<"c", "o", "v", "e", "r", "_", "m", "e", "d", "i", "a", "_", "i", "d", ":", " ", "'", "7", "'">>
SrcLines == {<<"t", "i", "t", "l", "e", ":", " ", "\"", "M", "y", "\"">>, <<"p", "o", "v", ":", " ", "\"", "A", "\"">>, CoverLine, CoverUrlLine, CoverMediaIdLine}

BodyText == <<"t", NL>>

NoFrontmatter == [hasFm |-> FALSE, lines |-> <<>>, body |-> BodyText]

SrcDocuments ==
  {NoFrontmatter} \cup
  {[hasFm |-> TRUE, lines |-> ls, body |-> <<NL>> \o BodyText] :
     ls \in {l \in ChunkSeqs(SrcLines, MaxSrcLines) : l # <<>>}}

SyncInit ==
  /\ srcChapters \in {[f \in {ChapterOne, ChapterNotes, ScratchFile} |->
                         IF f = ChapterOne THEN d ELSE NoFrontmatter] : d \in SrcDocuments}
  /\ destChapters = <<>>
  /\ syncRuns = 0

SyncIdle == srcChapters = <<>> /\ destChapters = <<>> /\ syncRuns = 0

\* syncNovel(novelName): every .md file of the chapters directory is written
\* to the destination, whatever the destination held
SyncNovel ==
  /\ syncRuns < MaxSyncRuns
  /\ LET mdFiles == {f \in DOMAIN srcChapters : EndsWith(f, DotMd)}
     IN  destChapters' =
           [f \in mdFiles \cup DOMAIN destChapters |->
              IF f \in mdFiles THEN SyncedDocument(f, srcChapters[f])
              ELSE destChapters[f]]
  /\ syncRuns' = syncRuns + 1
  /\ UNCHANGED srcChapters
  /\ UNCHANGED <<cleanVars, orderVars, excerptVars, assetVars, pubVars>>

\* An edit made in the destination only: a cover field is added to the front
\* matter of a synced chapter.
EditDestination ==
  /\ \E f \in DOMAIN destChapters, line \in {CoverLine, CoverUrlLine, CoverMediaIdLine} :
       /\ LineKey(line) \notin DOMAIN parseYamlFrontmatter(destChapters[f])
       /\ destChapters' =
            [destChapters EXCEPT ![f].lines = Append(destChapters[f].lines, line)]
  /\ UNCHANGED <<srcChapters, syncRuns>>
  /\ UNCHANGED <<cleanVars, orderVars, excerptVars, assetVars, pubVars>>

(***************************************************************************)
(* WordPress Publisher: scripts/publish-to-wp.js                           *)
(***************************************************************************)
\* position of the first occurrence of lit in s at or after i, 0 when none
RECURSIVE Find(_, _, _)
Find(s, i, lit) ==
  IF i > Len(s) THEN 0 ELSE IF MatchAt(s, i, lit) THEN i ELSE Find(s, i + 1, lit)

ProjectsSlash == <<"p", "r", "o", "j", "e", "c", "t", "s", "/">>
SlashChapters == <<"/", "c", "h", "a", "p", "t", "e", "r", "s">>

\* filepath.match(/projects\/([^/]+)\/chapters/): the captured name, <<>> for null
RECURSIVE NovelSlugFrom(_, _)
NovelSlugFrom(path, i) ==
  LET at == Find(path, i, ProjectsSlash)
      from == at + Len(ProjectsSlash)
      to == SkipUntil(path, from, {"/"})
  IN  IF at = 0 THEN <<>>
      ELSE IF to > from /\ MatchAt(path, to, SlashChapters) THEN Slice(path, from, to - 1)
      ELSE NovelSlugFrom(path, at + 1)

getNovelSlug(path) == NovelSlugFrom(path, 1)

\* the keys of NOVELS
NOVELS == {<<"2", "0", "2", "8", "w", "w", "3">>}

\* path.basename(path, '.md')
Basename(path) ==
  LET base == Slice(path, SkipBackWhile(path, Len(path),
                            {c \in {path[k] : k \in 1..Len(path)} : c # "/"}) + 1, Len(path))
  IN  IF EndsWith(base, DotMd) /\ Len(base) > 3 THEN Slice(base, 1, Len(base) - 3) ELSE base

\* basename(filename, '.md').toLowerCase().replace(/_/g, '-')
getChapterSlug(path) ==
  [i \in 1..Len(Basename(path)) |->
     IF Basename(path)[i] = "_" THEN "-" ELSE ToLowerChar(Basename(path)[i])]

generatePostSlug(novelSlug, chapterSlug) == novelSlug \o <<"-">> \o chapterSlug

PostSlug(path) == generatePostSlug(getNovelSlug(path), getChapterSlug(path))

\* the statuses the lookup asks for: &status=publish,draft
LookupStatuses == {"publish", "draft"}

\* the credentials check passing when only one of the two is unset
CredentialsMissingMutant == ~wpUser /\ ~wpAppPassword

\* !WP_USER || !WP_APP_PASSWORD
CredentialsMissing == ~wpUser \/ ~wpAppPassword

\* an error thrown while a file is processed leaving the loop
CatchErrorMutant(i) == [pc |-> "done", idx |-> i]

\* the catch of lines 381-385: the error is logged and the loop goes on
CatchError(i) == [pc |-> "loop", idx |-> i + 1]

\* the alt-text update sent without waiting for its answer
AltTextIsAwaitedMutant == FALSE

\* line 224: await fetch(... media/<id> ...)
AltTextIsAwaited == TRUE

\* the order in which uploadImageToWordPress and postToWordPress send requests
RequestKinds == <<"mediaSearch", "mediaUpload", "altText", "postLookup", "postWrite">>

\* the body of the post write, lines 269-280: title, content and excerpt are
\* computed from the chapter file alone (lines 345-373)
PostData(path, media) ==
  [source |-> path, slug |-> PostSlug(path), status |-> "publish", featured_media |-> media]

Request(kind, method, body) == [kind |-> kind, file |-> idx, method |-> method, body |-> body]

NoBody == [source |-> <<>>, slug |-> <<>>, status |-> "", featured_media |-> "none"]

\* Inputs
MaxArgs == 2
MaxRuns == 2

PathOne == <<"p", "r", "o", "j", "e", "c", "t", "s", "/", "2", "0", "2", "8", "w", "w", "3", "/", "c", "h", "a", "p", "t", "e", "r", "s", "/", "C", "h", "a", "p", "_", "1", ".", "m", "d">>
PathTwo == <<"p", "r", "o", "j", "e", "c", "t", "s", "/", "2", "0", "2", "8", "w", "w", "3", "/", "c", "h", "a", "p", "t", "e", "r", "s", "/", "C", "h", "a", "p", "_", "2", "-", "A", ".", "m", "d">>
PathOther == <<"p", "r", "o", "j", "e", "c", "t", "s", "/", "o", "t", "h", "e", "r", "/", "c", "h", "a", "p", "t", "e", "r", "s", "/", "a", ".", "m", "d">>
PathText == <<"p", "r", "o", "j", "e", "c", "t", "s", "/", "2", "0", "2", "8", "w", "w", "3", "/", "c", "h", "a", "p", "t", "e", "r", "s", "/", "n", "o", "t", "e", "s", ".", "t", "x", "t">>
PubPaths == {PathOne, PathTwo, PathOther, PathText}

PostSlugs == {PostSlug(PathOne), PostSlug(PathTwo)}

PubInit ==
  /\ wpUser \in BOOLEAN
  /\ wpAppPassword \in BOOLEAN
  /\ argv \in ChunkSeqs(PubPaths, MaxArgs)
  /\ files = <<>>
  /\ pc = "start"
  /\ idx = 0
  /\ exitCode = 0
  /\ inflight = {}
  /\ featuredMediaId = "none"
  /\ remotePosts \in [PostSlugs -> {"none", "draft", "private"}]
  /\ extraPosts = [sl \in PostSlugs |-> 0]
  /\ outcome = <<>>
  /\ fault = <<>>
  /\ calls = <<>>
  /\ reads = {}
  /\ runs = 0

PubIdle ==
  /\ wpUser = FALSE /\ wpAppPassword = FALSE /\ argv = <<>> /\ files = <<>>
  /\ pc = "idle" /\ idx = 0 /\ exitCode = 0 /\ inflight = {}
  /\ featuredMediaId = "none" /\ remotePosts = <<>> /\ extraPosts = <<>>
  /\ outcome = <<>> /\ fault = <<>> /\ calls = <<>> /\ reads = {} /\ runs = 0

notPubVars == <<cleanVars, orderVars, excerptVars, assetVars, syncVars>>
envVars == <<wpUser, wpAppPassword, argv>>

\* main, lines 313-328: the arguments are filtered, an empty list returns, and
\* only then are the credentials checked
Main ==
  /\ pc = "start"
  /\ LET md == SelectSeq(argv, LAMBDA f : EndsWith(f, DotMd))
     IN  /\ files' = md
         /\ outcome' = [i \in 1..Len(md) |-> "pending"]
         /\ fault' = [i \in 1..Len(md) |-> FALSE]
         /\ calls' = <<>>
         /\ IF md = <<>> THEN pc' = "done" /\ idx' = 0 /\ exitCode' = exitCode
            ELSE IF CredentialsMissing THEN pc' = "exited" /\ idx' = 0 /\ exitCode' = 1
            ELSE pc' = "loop" /\ idx' = 1 /\ exitCode' = exitCode
  /\ UNCHANGED <<envVars, inflight, featuredMediaId, remotePosts, extraPosts, reads, runs>>
  /\ UNCHANGED notPubVars

\* the file being processed throws: the catch takes over
Throw(answered) ==
  /\ outcome' = [outcome EXCEPT ![idx] = "failed"]
  /\ fault' = [fault EXCEPT ![idx] = TRUE]
  /\ pc' = CatchError(idx).pc
  /\ idx' = CatchError(idx).idx
  /\ inflight' = inflight \ answered
  /\ featuredMediaId' = "none"
  /\ calls' = <<>>

\* a request is sent and main awaits its answer
Send(req, answered) ==
  /\ inflight' = (inflight \ answered) \cup {req}
  /\ calls' = Append(calls, req.kind)
  /\ pc' = req.kind
  /\ UNCHANGED <<idx, outcome, fault>>

\* postToWordPress is entered: the lookup of findExistingPost is sent
SendLookup(media, answered) ==
  /\ featuredMediaId' = media
  /\ Send(Request("postLookup", "GET", NoBody), answered)

\* one pass of the loop up to its first request, lines 330-356 and 171-183
StartFile ==
  /\ pc = "loop"
  /\ idx <= Len(files)
  /\ IF getNovelSlug(files[idx]) \notin NOVELS
     THEN /\ outcome' = [outcome EXCEPT ![idx] = "skipped"]
          /\ idx' = idx + 1
          /\ UNCHANGED <<pc, inflight, featuredMediaId, fault, calls, reads>>
     ELSE /\ reads' = reads \cup {idx}
          /\ \E readable \in BOOLEAN, cover \in {"none", "unreadable", "readable"} :
               IF ~readable THEN Throw({})
               ELSE IF cover = "readable"
                    THEN /\ Send(Request("mediaSearch", "GET", NoBody), {})
                         /\ featuredMediaId' = "none"
                    ELSE SendLookup("none", {})
  /\ UNCHANGED <<envVars, files, exitCode, remotePosts, extraPosts, runs>>
  /\ UNCHANGED notPubVars

\* the answer to findExistingMedia's search, lines 156-187
MediaSearchResponse ==
  /\ pc = "mediaSearch"
  /\ \E req \in inflight :
       /\ req.kind = "mediaSearch"
       /\ \E answer \in {"error", "notOk", "found", "notFound"} :
            CASE answer = "error" -> Throw({req})
              [] answer = "found" -> SendLookup("existing", {req})
              [] OTHER -> /\ Send(Request("mediaUpload", "POST", NoBody), {req})
                          /\ UNCHANGED featuredMediaId
  /\ UNCHANGED <<envVars, files, exitCode, remotePosts, extraPosts, reads, runs>>
  /\ UNCHANGED notPubVars

\* the answer to the upload, lines 204-232
MediaUploadResponse ==
  /\ pc = "mediaUpload"
  /\ \E req \in inflight :
       /\ req.kind = "mediaUpload"
       /\ \E answer \in {"error", "notOk", "ok"} :
            CASE answer = "error" -> Throw({req})
              [] answer = "notOk" -> SendLookup("none", {req})
              [] OTHER ->
                   IF AltTextIsAwaited
                   THEN /\ Send(Request("altText", "PUT", NoBody), {req})
                        /\ UNCHANGED featuredMediaId
                   ELSE /\ featuredMediaId' = "uploaded"
                        /\ inflight' = (inflight \ {req})
                             \cup {Request("altText", "PUT", NoBody),
                                   Request("postLookup", "GET", NoBody)}
                        /\ calls' = calls \o <<"altText", "postLookup">>
                        /\ pc' = "postLookup"
                        /\ UNCHANGED <<idx, outcome, fault>>
  /\ UNCHANGED <<envVars, files, exitCode, remotePosts, extraPosts, reads, runs>>
  /\ UNCHANGED notPubVars

\* the answer to the alt-text update, lines 224-235: its status is not looked at
AltTextResponse ==
  /\ \E req \in inflight :
       /\ req.kind = "altText"
       /\ IF pc = "altText"
          THEN \E answer \in {"error", "notOk", "ok"} :
                 IF answer = "error" THEN Throw({req}) ELSE SendLookup("uploaded", {req})
          ELSE /\ inflight' = inflight \ {req}
               /\ UNCHANGED <<pc, idx, featuredMediaId, outcome, fault, calls>>
  /\ UNCHANGED <<envVars, files, exitCode, remotePosts, extraPosts, reads, runs>>
  /\ UNCHANGED notPubVars

\* the answer to findExistingPost's lookup and the write that follows,
\* lines 139-146 and 267-299
PostLookupResponse ==
  /\ pc = "postLookup"
  /\ \E req \in inflight :
       /\ req.kind = "postLookup"
       /\ \E answer \in {"error", "notOk", "ok"} :
            IF answer = "error" THEN Throw({req})
            ELSE LET slug == PostSlug(files[idx])
                     existingPost == answer = "ok" /\ remotePosts[slug] \in LookupStatuses
                 IN  /\ Send(Request("postWrite", IF existingPost THEN "PUT" ELSE "POST",
                                     PostData(files[idx], featuredMediaId)), {req})
                     /\ UNCHANGED featuredMediaId
  /\ UNCHANGED <<envVars, files, exitCode, remotePosts, extraPosts, reads, runs>>
  /\ UNCHANGED notPubVars

\* the answer to the post write, lines 301-307 and 376-379
PostWriteResponse ==
  /\ pc = "postWrite"
  /\ \E req \in inflight :
       /\ req.kind = "postWrite"
       /\ \E answer \in {"error", "notOk", "ok"} :
            IF answer # "ok"
            THEN Throw({req}) /\ UNCHANGED <<remotePosts, extraPosts>>
            ELSE /\ IF req.method = "POST" /\ remotePosts[req.body.slug] # "none"
                    THEN /\ extraPosts' = [extraPosts EXCEPT ![req.body.slug] = @ + 1]
                         /\ UNCHANGED remotePosts
                    ELSE /\ remotePosts' = [remotePosts EXCEPT ![req.body.slug] = "publish"]
                         /\ UNCHANGED extraPosts
                 /\ outcome' = [outcome EXCEPT ![idx] = "success"]
                 /\ inflight' = inflight \ {req}
                 /\ pc' = "loop"
                 /\ idx' = idx + 1
                 /\ featuredMediaId' = "none"
                 /\ calls' = <<>>
                 /\ UNCHANGED fault
  /\ UNCHANGED <<envVars, files, exitCode, reads, runs>>
  /\ UNCHANGED notPubVars

\* the loop has gone through the list: line 388
Finish ==
  /\ pc = "loop"
  /\ idx > Len(files)
  /\ pc' = "done"
  /\ UNCHANGED <<envVars, files, idx, exitCode, inflight, featuredMediaId, remotePosts,
                 extraPosts, outcome, fault, calls, reads, runs>>
  /\ UNCHANGED notPubVars

\* the Publisher is started again with the same arguments
RunAgain ==
  /\ pc = "done"
  /\ runs + 1 < MaxRuns
  /\ runs' = runs + 1
  /\ pc' = "start"
  /\ idx' = 0
  /\ exitCode' = 0
  /\ files' = <<>>
  /\ inflight' = {}
  /\ featuredMediaId' = "none"
  /\ outcome' = <<>>
  /\ fault' = <<>>
  /\ calls' = <<>>
  /\ reads' = {}
  /\ UNCHANGED <<envVars, remotePosts, extraPosts>>
  /\ UNCHANGED notPubVars

PubNext ==
  \/ Main
  \/ StartFile
  \/ MediaSearchResponse
  \/ MediaUploadResponse
  \/ AltTextResponse
  \/ PostLookupResponse
  \/ PostWriteResponse
  \/ Finish
  \/ RunAgain

(***************************************************************************)
(* Cleaner runs                                                            *)
(***************************************************************************)
CleanerInit ==
  /\ fileContent \in CleanInputs
  /\ cleanInput = fileContent
  /\ cleanRuns = 0
  /\ wasModified = FALSE

\* cleanChapter(filePath): read, transform, write back only when changed
CleanChapter ==
  /\ cleanRuns < MaxCleanRuns
  /\ LET content == CleanContent(fileContent)
     IN  /\ fileContent' = (IF content # fileContent THEN content ELSE fileContent)
         /\ wasModified' = (content # fileContent)
  /\ cleanRuns' = cleanRuns + 1
  /\ UNCHANGED cleanInput
  /\ UNCHANGED <<orderVars, excerptVars, assetVars, syncVars, pubVars>>

CleanerIdle ==
  fileContent = <<>> /\ cleanInput = <<>> /\ cleanRuns = 0 /\ wasModified = FALSE

(***************************************************************************)
(* Specifications                                                          *)
(***************************************************************************)
InitClean ==
  CleanerInit /\ OrderIdle /\ ExcerptIdle /\ AssetsIdle /\ SyncIdle /\ PubIdle

SpecClean == InitClean /\ [][CleanChapter]_vars

InitOrder ==
  OrderInit /\ CleanerIdle /\ ExcerptIdle /\ AssetsIdle /\ SyncIdle /\ PubIdle

SpecOrder == InitOrder /\ [][GetChapterOrder]_vars

InitExcerpt ==
  ExcerptInit /\ CleanerIdle /\ OrderIdle /\ AssetsIdle /\ SyncIdle /\ PubIdle

SpecExcerpt == InitExcerpt /\ [][CreateExcerpt]_vars

InitAssets ==
  AssetsInit /\ CleanerIdle /\ OrderIdle /\ ExcerptIdle /\ SyncIdle /\ PubIdle

SpecAssets == InitAssets /\ [][SyncAssets]_vars

SyncNext == SyncNovel \/ EditDestination

InitSync ==
  SyncInit /\ CleanerIdle /\ OrderIdle /\ ExcerptIdle /\ AssetsIdle /\ PubIdle

SpecSync == InitSync /\ [][SyncNext]_vars

InitPub ==
  PubInit /\ CleanerIdle /\ OrderIdle /\ ExcerptIdle /\ AssetsIdle /\ SyncIdle

SpecPub == InitPub /\ [][PubNext]_vars

(***************************************************************************)
(* Claims about the Cleaner                                                *)
(***************************************************************************)
\* the lengths of the maximal runs of newlines of s, in order
RECURSIVE RunLengthsFrom(_, _)
RunLengthsFrom(s, i) ==
  IF i > Len(s) THEN <<>>
  ELSE IF s[i] = NL
       THEN <<SkipWhile(s, i, {NL}) - i>> \o RunLengthsFrom(s, SkipWhile(s, i, {NL}))
       ELSE RunLengthsFrom(s, i + 1)

RunLengths(s) == RunLengthsFrom(s, 1)

NoRunOfFour(s) == \A j \in DOMAIN RunLengths(s) : RunLengths(s)[j] < 4

\* a text in which the Cleaner has nothing to remove and no delimiter to trim after
PlainInput(s) == \A i \in 1..Len(s) : s[i] \notin {"<", "-"}

\* C5 (as claimed): cleaning is idempotent: whatever the file held, the second
\* Cleaner run finds nothing to change and writes nothing.
C5_SecondRunChangesNothing == cleanRuns = 2 => ~wasModified

HasLetter(p) == Len(p.sub) = 2 /\ IsUpper(p.sub[2])

\* the name follows Chap_<N>[-<L>]_...
Conforming(p) ==
  /\ p.head = <<>>
  /\ p.word = ChapLiteral
  /\ p.hasNumber
  /\ p.sub = <<>> \/ HasLetter(p)
  /\ p.tail[1] = "_"

AlphabetPosition(l) == CHOOSE i \in 1..26 : UpperCase[i] = l

ExpectedOrder(p) == p.n * 10 + (IF HasLetter(p) THEN AlphabetPosition(p.sub[2]) ELSE 0)

\* the name holds "Chap_" followed by a digit somewhere
HoldsChapNumber(p) ==
  \/ p.word = ChapLiteral /\ p.hasNumber
  \/ p.tail # TitleTail /\ Len(p.tail) > 3

\* C7 (as claimed): a conforming filename gets N*10 + the letter's position,
\* every other filename gets 999.
C7_OrderOrSentinel ==
  order # -1 =>
    IF Conforming(nameParts) THEN order = ExpectedOrder(nameParts) ELSE order = 999

\* C7 (amended): a conforming filename gets N*10 + the letter's position; so does
\* every filename that holds Chap_<N>, whatever precedes or follows it (no
\* letter when "-" is not followed by an upper-case letter); a filename that
\* holds no "Chap_" followed by a digit gets 999.
C7_OrderOfFirstChapNumber ==
  order # -1 =>
    /\ Conforming(nameParts) => order = ExpectedOrder(nameParts)
    /\ (nameParts.word = ChapLiteral /\ nameParts.hasNumber) =>
         order = ExpectedOrder(nameParts)
    /\ ~HoldsChapNumber(nameParts) => order = 999

\* Chap_12-B_AB_T.md has been given 122
C7_Witness ==
  /\ order = 122
  /\ Conforming(nameParts)
  /\ nameParts.n = 12
  /\ nameParts.sub = <<"-", "B">>

(***************************************************************************)
(* Claims about createExcerpt                                              *)
(***************************************************************************)
Ellipsis == <<".", ".", ".">>

HasWhitespace(t) == \E i \in 1..Len(t) : t[i] \in Whitespace

\* C8 (as claimed): a plain text longer than maxLength gives at most
\* maxLength+3 characters ending in "...", the text before the ellipsis being a
\* prefix of at most maxLength characters that ends where whitespace begins
\* (never inside a word); a shorter plain text is returned unchanged.
C8_NeverMidWord ==
  excerptDone =>
    LET plain == PlainText(chapterBody)
    IN  IF Len(plain) <= maxLength THEN excerpt = plain
        ELSE /\ Len(excerpt) <= maxLength + 3
             /\ \E k \in 0..maxLength :
                  /\ excerpt = Slice(plain, 1, k) \o Ellipsis
                  /\ plain[k + 1] \in Whitespace

\* C8 (amended): a plain text longer than maxLength gives at most maxLength+3
\* characters ending in "...": when its first maxLength characters hold
\* whitespace, the text before the ellipsis ends right before the last run of
\* whitespace among them (so at the end of a word); when they hold none, it is
\* exactly those maxLength characters, wherever they end.  A plain text of at
\* most maxLength characters is returned unchanged.
C8_CutBeforeLastWhitespaceRun ==
  excerptDone =>
    LET plain == PlainText(chapterBody)
        t == Slice(plain, 1, maxLength)
    IN  IF Len(plain) <= maxLength THEN excerpt = plain
        ELSE /\ Len(excerpt) <= maxLength + 3
             /\ IF ~HasWhitespace(t) THEN excerpt = t \o Ellipsis
                ELSE \E k \in 1..(maxLength - 1) :
                       /\ excerpt = Slice(plain, 1, k) \o Ellipsis
                       /\ plain[k] \notin Whitespace
                       /\ plain[k + 1] \in Whitespace
                       /\ \A m \in (k + 1)..maxLength :
                            plain[m] \in Whitespace =>
                              \A j \in (k + 1)..m : plain[j] \in Whitespace

\* a long plain text has been cut before its last whitespace run
C8_Witness ==
  /\ excerptDone
  /\ Len(PlainText(chapterBody)) > maxLength
  /\ HasWhitespace(Slice(PlainText(chapterBody), 1, maxLength))
  /\ Len(excerpt) < maxLength + 3

(***************************************************************************)
(* Claims about syncAssets                                                 *)
(***************************************************************************)
\* the names of AssetNames that end in an image extension, whatever the case
ImageNames == { <<"a", ".", "j", "p", "g">>, <<"B", ".", "P", "N", "G">>, <<"e", ".", "J", "p", "e", "g">> }

\* C9: after syncAssets a file of the source tree is at the mirrored path of the
\* destination exactly when its name ends, whatever the case, in an image
\* extension; nothing else is there; and the count returned is the number of
\* files copied, nested directories included.
C9_OnlyImagesCopied ==
  assetCount # -1 =>
    /\ \A f \in srcFiles : f \in destFiles <=> f[Len(f)] \in ImageNames
    /\ destFiles \subseteq srcFiles
    /\ assetCount = Cardinality(destFiles)

\* a nested tree with an upper-case image, a text file and a directory whose
\* name ends in .png has been synced
C9_Witness ==
  /\ assetCount >= 2
  /\ \E f \in destFiles : Len(f) = 3 /\ f[Len(f)] = <<"B", ".", "P", "N", "G">>
  /\ \E f \in srcFiles \ destFiles : f[Len(f)] = <<"c", ".", "t", "x", "t">>
  /\ \E f \in destFiles : Len(f) = 1

(***************************************************************************)
(* Claims about syncNovel                                                  *)
(***************************************************************************)
CoverKeys == {KeyCover, KeyCoverUrl, KeyCoverMediaId}

\* C1 (as claimed): a cover, cover_url or cover_media_id field that the
\* destination file has and the source file lacks is still in the destination
\* front matter, with the same value, after every syncNovel run.
C1_CoverSurvivesSync ==
  [][syncRuns' # syncRuns =>
       \A f \in DOMAIN destChapters : \A k \in CoverKeys :
         (/\ k \in DOMAIN parseYamlFrontmatter(destChapters[f])
          /\ k \notin DOMAIN parseYamlFrontmatter(srcChapters[f]))
           => /\ k \in DOMAIN parseYamlFrontmatter(destChapters'[f])
              /\ parseYamlFrontmatter(destChapters'[f])[k]
                   = parseYamlFrontmatter(destChapters[f])[k]]_vars

(***************************************************************************)
(* Claims about the Publisher                                              *)
(***************************************************************************)
\* C2 (as claimed): the post write is a create (POST) when no remote post has
\* the slug and an update (PUT) when one has; its body carries the file's
\* title, content and excerpt, the slug and the status publish either way; and
\* the lookup has been made before it.
C2_CreateIffNoRemotePost ==
  \A req \in inflight :
    req.kind = "postWrite" =>
      /\ req.method = "POST" <=> remotePosts[req.body.slug] = "none"
      /\ req.method = "PUT" <=> remotePosts[req.body.slug] # "none"
      /\ req.body.source = files[req.file]
      /\ req.body.status = "publish"
      /\ \E i \in 1..Len(calls) : calls[i] = "postLookup"

KnownNovel(path) == \E i \in 1..Len(path) : MatchAt(path, i, <<"/", "2", "0", "2", "8", "w", "w", "3", "/", "c", "h", "a", "p", "t", "e", "r", "s", "/">>)

\* C3: whichever files of the batch fail, the loop reaches the end of the list
\* with exit code 0 and every file has its own outcome: skipped for an unknown
\* novel, failed when one of its own steps threw, success (reported after its
\* post write was answered) otherwise.
C3_FailuresAreIsolated ==
  (pc = "done" /\ files # <<>>) =>
    /\ exitCode = 0
    /\ idx = Len(files) + 1
    /\ \A i \in 1..Len(files) :
         /\ outcome[i] # "pending"
         /\ outcome[i] = "skipped" <=> ~KnownNovel(files[i])
         /\ outcome[i] = "failed" <=> fault[i]
         /\ (KnownNovel(files[i]) /\ ~fault[i]) => outcome[i] = "success"

\* a batch whose first file failed and whose second file succeeded
C3_Witness ==
  /\ pc = "done"
  /\ Len(files) >= 2
  /\ fault[1]
  /\ outcome[2] = "success"
  /\ exitCode = 0

HasMdArgument == \E i \in 1..Len(argv) : argv[i][Len(argv[i])] = "d"

\* C4 (as claimed): with WP_USER or WP_APP_PASSWORD unset the Publisher ends
\* with exit code 1, whatever its arguments, having read no file and sent no
\* request.
C4_ExitOneWithoutCredentials ==
  (~wpUser \/ ~wpAppPassword) =>
    /\ reads = {} /\ inflight = {} /\ calls = <<>>
    /\ pc \in {"start", "exited"}
    /\ pc = "exited" => exitCode = 1

\* C4 (amended): with WP_USER or WP_APP_PASSWORD unset the Publisher reads no
\* file and sends no request; it exits with code 1 when at least one argument
\* is a .md file, and returns normally (exit code 0) when none is, the empty
\* list being handled before the credentials are looked at.
C4_NoWorkWithoutCredentials ==
  (~wpUser \/ ~wpAppPassword) =>
    /\ reads = {} /\ inflight = {} /\ calls = <<>>
    /\ pc \in {"start", "exited", "done"}
    /\ pc = "exited" => (exitCode = 1 /\ HasMdArgument)
    /\ pc = "done" => (exitCode = 0 /\ ~HasMdArgument)

\* the Publisher has exited with code 1 on two chapter files, one credential unset
C4_Witness ==
  /\ wpUser /\ ~wpAppPassword
  /\ pc = "exited"
  /\ exitCode = 1
  /\ Len(argv) >= 2 /\ HasMdArgument

Rank(kind) == CHOOSE r \in 1..5 : RequestKinds[r] = kind

\* C10: at most one request is outstanding, it belongs to the file being
\* processed and it is the one main is waiting for; no file after the current
\* one has been touched and every file before it has its outcome; and the
\* requests of one file go out in the order media search, media upload,
\* alt-text update, post lookup, post write.
C10_OneRequestAtATime ==
  /\ Cardinality(inflight) <= 1
  /\ \A req \in inflight : req.file = idx /\ pc = req.kind
  /\ pc \in {"mediaSearch", "mediaUpload", "altText", "postLookup", "postWrite"}
       => \E req \in inflight : req.kind = pc
  /\ \A i \in 1..Len(files) :
       /\ i > idx => outcome[i] = "pending" /\ i \notin reads
       /\ i < idx => outcome[i] # "pending"
  /\ \A i, j \in 1..Len(calls) : i < j => Rank(calls[i]) < Rank(calls[j])

\* the second file's post write is outstanding after its cover was uploaded and
\* its alt text updated
C10_Witness ==
  /\ idx = 2
  /\ pc = "postWrite"
  /\ calls = RequestKinds
  /\ outcome[1] = "success"


\* C11 (as claimed): however often the Publisher is run over the same chapter
\* file, and whatever the slug lookups are answered, at most one post has been
\* created for a slug while a post with that slug already existed remotely.
C11_AtMostOneDuplicate ==
  pc # "idle" => \A sl \in PostSlugs : extraPosts[sl] <= 1


(***************************************************************************)
(* Claims about the order of chapters                                      *)
(***************************************************************************)
\* the conforming filenames Chap_<N>[-<L>]_AB_T.md of the input space
ConformingNames ==
  {q \in NameParts : Conforming(q) /\ ~q.padded /\ q.tail = TitleTail}

\* a missing letter sorts before A, letters sort alphabetically
LetterRank(p) == IF HasLetter(p) THEN AlphabetPosition(p.sub[2]) ELSE 0

\* (N1, L1) is lexicographically smaller than (N2, L2)
ChapterBefore(p, q) == p.n < q.n \/ (p.n = q.n /\ LetterRank(p) < LetterRank(q))

\* C12 (as claimed): the order key preserves chapter order: a conforming
\* filename never gets the sentinel 999, and every conforming filename whose
\* (N, L) is lexicographically greater gets a strictly greater order value.
C12_OrderKeyPreservesChapterOrder ==
  (order # -1 /\ Conforming(nameParts)) =>
    /\ order # 999
    /\ \A q \in ConformingNames :
         ChapterBefore(nameParts, q) => order < getChapterOrder(BuildName(q))

====
